---- MODULE Spec2Model ----
(***************************************************************************)
(* A model of tools/teleop_server.py: the bridge between one serial        *)
(* device and any number of WebSocket clients.                             *)
(*                                                                         *)
(* The asyncio event loop runs one coroutine at a time, so every action of *)
(* a coroutine below is the code between two suspension points (await).    *)
(* The jobs handed to the default thread pool (Serial.write, Serial.read,  *)
(* Serial.close) run in their own threads and are separate actions.        *)
(***************************************************************************)
EXTENDS Integers, Sequences, FiniteSets, TLC

\* ------------------------------------------------------------------ bounds

\* Client connections the model accepts (ws objects, numbered in accept order).
NumSessions == 3
\* Client connections accepted in a run of the command specification.
CmdSessions == 2
\* Client messages handled in one run, over all sessions.
MaxMsgs == 2
\* Calls of BrainstemSerial.close in one run.
MaxCloses == 3
\* Longest device byte stream the reader specification enumerates.
MaxStream == 5

\* ------------------------------------------------------- program constants

\* self.seq = (self.seq + 1) & 0xFFFFFFFF.  A 32-bit number is kept as two
\* 16-bit halves <<high, low>>, its value high * 65536 + low, since the
\* checker's integers end at 2^31 - 1.
Half == 65536
\* read(128): the most bytes one serial read returns
ReadSize == 128

Sessions == 1..NumSessions

\* Bytes.  LF is 0x0A, CR is 0x0D, HI stands for any byte >= 0x80, which
\* decode("ascii", errors="ignore") drops.
LF == "\n"
CR == "\r"
HI == "x80"

VARIABLES
  mainpc,       \* main_async's position
  ser,          \* BrainstemSerial._ser: "None" or "Ser"
  portOpen,     \* the Serial object's is_open
  closeJob,     \* ser.close is queued in the executor and has not run
  released,     \* history: how many times ser.close closed the open device
  closeCalls,   \* history: how many times BrainstemSerial.close was called
  lockHolder,   \* BrainstemSerial._lock: the session holding it, 0 when free
  lockWaiters,  \* its FIFO of waiting sessions
  wire,         \* the bytes handed to the device, in order
  wlog,         \* history: one record per write job given to the executor
  ws_clients,   \* TeleopServer.ws_clients
  seq, tx_count, rx_count, last_tx, last_rx,
  spc,          \* each connection handler's position
  alive,        \* whether a send on the session's socket succeeds
  inbox,        \* the events each client has been sent, in order
  cur,          \* the line the handler's current command rendered
  werr,         \* the exception write_line raised into the handler
  wdata,        \* the bytes the handler's write job has still to write
  esnap,        \* tx echo: the sessions of list(ws_clients) not yet tried
  esnap0,       \* history: that list as taken
  exc,          \* history: the exception that ended the handler
  joinRx,       \* history: rx_count when the session was registered
  telpc,        \* telemetry_task's position
  dev,          \* the bytes the device has still to send
  consumed,     \* history: the bytes read from the device so far
  buf,          \* read_lines' bytearray
  yielded,      \* history: the lines read_lines has yielded
  tline,        \* the line being fanned out
  tcur,         \* rx fan-out: the session whose send_str is awaited, or 0
  tsnap,        \* rx fan-out: the sessions of list(ws_clients) not yet tried
  tsnap0,       \* history: that list as taken
  dead,         \* telemetry_task's dead list
  tries,        \* history: the sends the current rx fan-out has attempted
  issued,       \* history: every line handle_msg rendered, in order
  budget,       \* how many messages the clients of this run have yet to send
  menu,         \* the messages the clients of this run send
  quota,        \* how many connections this run accepts
  shutdownAt,   \* history: Len(wire) when main_async's finally began, -1 before
  failAt        \* history: Len(wire) at the first I/O error of a write, -1 before

vars == <<mainpc, ser, portOpen, closeJob, released, closeCalls, lockHolder, lockWaiters, wire, wlog,
          ws_clients, seq, tx_count, rx_count, last_tx, last_rx, spc, alive,
          inbox, cur, werr, wdata, esnap, esnap0, exc, joinRx, telpc, dev,
          consumed, buf, yielded, tline, tcur, tsnap, tsnap0, dead, tries, issued,
          budget,
          menu, quota, shutdownAt, failAt>>

mainVars == <<mainpc, shutdownAt, menu, quota>>
serialVars == <<ser, portOpen, closeJob, released, closeCalls>>
lockVars == <<lockHolder, lockWaiters>>
wireVars == <<wire, wlog, failAt>>
statVars == <<seq, tx_count, last_tx, issued, budget>>
sessVars == <<spc, alive, inbox, cur, werr, wdata, esnap, esnap0, exc, joinRx>>
telVars == <<telpc, dev, consumed, buf, yielded, tline, tcur, tsnap, tsnap0, dead,
             tries, rx_count, last_rx>>

\* ---------------------------------------------------------------- helpers

RECURSIVE SetToSeq(_)
\* The elements of a finite set of integers, ascending.
SetToSeq(S) ==
  IF S = {} THEN <<>>
  ELSE LET m == CHOOSE x \in S : \A y \in S : x <= y
       IN <<m>> \o SetToSeq(S \ {m})

RECURSIVE Count(_, _)
\* How many elements of the sequence s equal x.
Count(s, x) ==
  IF s = <<>> THEN 0
  ELSE (IF Head(s) = x THEN 1 ELSE 0) + Count(Tail(s), x)

IsPrefix(p, s) ==
  Len(p) <= Len(s) /\ SubSeq(s, 1, Len(p)) = p

\* ------------------------------------------------- client messages (JSON)

\* A JSON value, as far as float(), int() and bool() tell values apart.
\* k = "absent" is a key the object does not hold.  A number holds
\* thousandths (v = 500 is 0.5); a "numstr" is a string Python parses as that
\* number; "str" is any other string (v = 0: the empty string).
Absent == [k |-> "absent", v |-> 0]
Num(n) == [k |-> "num", v |-> n]
NumStr(n) == [k |-> "numstr", v |-> n]
Str(n) == [k |-> "str", v |-> n]
Bool(b) == [k |-> "bool", v |-> IF b THEN 1 ELSE 0]
Null == [k |-> "null", v |-> 0]

\* A client message.  j is what json.loads makes of the text.
Obj(t, vx, wz, enable, mask) ==
  [j |-> "object", type |-> t, vx |-> vx, wz |-> wz, enable |-> enable,
   mask |-> mask]
Unparseable == [Obj("", Absent, Absent, Absent, Absent) EXCEPT !.j = "unparseable"]
NonObject == [Obj("", Absent, Absent, Absent, Absent) EXCEPT !.j = "array"]

Twist(vx, wz) == Obj("twist", vx, wz, Absent, Absent)
Ping == Obj("ping", Absent, Absent, Absent, Absent)
Safe(e) == Obj("safe", Absent, Absent, e, Absent)
Led(m) == Obj("led", Absent, Absent, Absent, m)

\* The messages the model's clients send.
TwistMsgs ==
  { Twist(Num(500), Num(-250)), Twist(Absent, Absent),
    Twist(Str(1), Num(0)), Twist(Num(0), Null) }
Msgs ==
  TwistMsgs \cup
  { Ping, Safe(Absent), Safe(Bool(FALSE)), Led(Num(3000)), Led(Str(1)),
    Led(Absent), Obj("estop", Absent, Absent, Absent, Absent),
    Obj("", Absent, Absent, Absent, Absent), Unparseable, NonObject }

\* The outcome of a conversion: a value, or the exception raised.
Ok(n) == [err |-> "none", v |-> n]
Raise(e) == [err |-> e, v |-> 0]

\* Mutant: a conversion that takes what float() refuses for zero.
PyFloatLenient(x) ==
  CASE x.k \in {"absent", "str", "null"} -> Ok(0)
    [] x.k = "bool" -> Ok(1000 * x.v)
    [] OTHER -> Ok(x.v)

\* float(msg.get(key, 0.0)), in thousandths.
PyFloat(x) ==
  CASE x.k = "absent" -> Ok(0)
    [] x.k = "num" -> Ok(x.v)
    [] x.k = "numstr" -> Ok(x.v)
    [] x.k = "bool" -> Ok(1000 * x.v)
    [] x.k = "str" -> Raise("ValueError")
    [] x.k = "null" -> Raise("TypeError")

\* int(msg.get("mask", 0)): a float is truncated toward zero, a string must
\* be an integer literal.
PyInt(x) ==
  CASE x.k = "absent" -> Ok(0)
    [] x.k = "num" ->
         Ok(IF x.v >= 0 THEN x.v \div 1000 ELSE -((-x.v) \div 1000))
    [] x.k = "numstr" ->
         IF x.v % 1000 = 0 THEN Ok(x.v \div 1000) ELSE Raise("ValueError")
    [] x.k = "bool" -> Ok(x.v)
    [] x.k = "str" -> Raise("ValueError")
    [] x.k = "null" -> Raise("TypeError")

\* bool(msg.get("enable", True))
PyBool(x) ==
  CASE x.k = "absent" -> TRUE
    [] x.k = "null" -> FALSE
    [] OTHER -> x.v # 0

\* ------------------------------------------------------------ device lines

\* A rendered line.  a and b are the arguments before the sequence number
\* (TWIST: vx and wz in thousandths, as "%.3f" prints them; SAFE: 0 or 1;
\* LED: the mask), n the sequence number in halves, NoSeq for a line that
\* carries none.
NoSeq == <<-1, -1>>
Line(cmd, a, b, n) == [cmd |-> cmd, a |-> a, b |-> b, n |-> n]
\* last_tx = None
NoLine == Line("", 0, 0, NoSeq)

\* The bytes of the wire.  A line's text is handed to the device in pieces
\* (os.write may take any part of what is left); a line of text is modelled
\* as two pieces, which is enough for two lines to be told apart when their
\* bytes interleave.
Piece(l, i) == [line |-> l, i |-> i]
NLByte == Piece(NoLine, 0)
LineText(l) == <<Piece(l, 1), Piece(l, 2)>>

RECURSIVE RStripNL(_)
\* str.rstrip("\n")
RStripNL(t) ==
  IF t # <<>> /\ t[Len(t)] = NLByte THEN RStripNL(SubSeq(t, 1, Len(t) - 1))
  ELSE t

\* data = (line.rstrip("\n") + "\n").encode("ascii", errors="ignore")
Render(l) == RStripNL(LineText(l)) \o <<NLByte>>

\* self.seq = 1
SeqAfterInit == <<0, 1>>

\* Mutant: the increment without the mask.
NextSeqUnmasked(s) ==
  IF s[2] + 1 < Half THEN <<s[1], s[2] + 1>> ELSE <<s[1] + 1, 0>>

\* self.seq = (self.seq + 1) & 0xFFFFFFFF
NextSeq(s) ==
  IF s[2] + 1 < Half THEN <<s[1], s[2] + 1>>
  ELSE <<(s[1] + 1) % Half, 0>>

\* --------------------------------------------------------- device reading

\* Mutant: the place of the last newline (rindex for index).
IndexOfLastLF(b) ==
  IF \E i \in 1..Len(b) : b[i] = LF
  THEN CHOOSE i \in 1..Len(b) : b[i] = LF /\ \A j \in (i + 1)..Len(b) : b[j] # LF
  ELSE 0

\* buf.index(0x0A): the place of the first newline, 0 when there is none.
IndexOfLF(b) ==
  IF \E i \in 1..Len(b) : b[i] = LF
  THEN CHOOSE i \in 1..Len(b) : b[i] = LF /\ \A j \in 1..(i - 1) : b[j] # LF
  ELSE 0

\* bytes.decode("ascii", errors="ignore")
IsAscii(b) == b # HI
Decode(b) == SelectSeq(b, IsAscii)

RECURSIVE RStripCR(_)
\* str.rstrip("\r")
RStripCR(t) ==
  IF t # <<>> /\ t[Len(t)] = CR THEN RStripCR(SubSeq(t, 1, Len(t) - 1))
  ELSE t

\* line = bytes(buf[:nl]).decode("ascii", errors="ignore").rstrip("\r")
LineOf(b, nl) == RStripCR(Decode(SubSeq(b, 1, nl - 1)))

\* del buf[: nl + 1]
AfterLine(b, nl) == SubSeq(b, nl + 1, Len(b))

\* last_rx = None
NoRx == <<"None">>

\* ------------------------------------------------------------------ events

\* What a client is sent: the hello, a tx echo of a rendered line, or an rx
\* event carrying a device line.
Hello == [type |-> "hello", tx |-> NoLine, rx |-> <<>>]
TxEvent(l) == [type |-> "tx", tx |-> l, rx |-> <<>>]
RxEvent(t) == [type |-> "rx", tx |-> NoLine, rx |-> t]

\* ----------------------------------------------------------- command side

\* handle_msg up to its write_line call: "drop" (return, nothing done),
\* "raise" (an exception leaves handle_msg), or "send" with the rendered
\* line and the sequence counter after it.
Dropped(s) == [act |-> "drop", err |-> "none", line |-> NoLine, seq |-> s]
Raised(e, s) == [act |-> "raise", err |-> e, line |-> NoLine, seq |-> s]
Send(l, s) == [act |-> "send", err |-> "none", line |-> l, seq |-> s]

TranslateTwist(m, s) ==
  LET vx == PyFloat(m.vx)
      wz == PyFloat(m.wz)
  IN IF vx.err # "none" THEN Raised(vx.err, s)
     ELSE IF wz.err # "none" THEN Raised(wz.err, s)
     ELSE Send(Line("TWIST", vx.v, wz.v, NextSeq(s)), NextSeq(s))

\* Mutant: a safe command that takes a sequence number.
TranslateSafeSeq(m, s) ==
  Send(Line("SAFE", IF PyBool(m.enable) THEN 1 ELSE 0, 0, NextSeq(s)),
       NextSeq(s))

TranslateSafe(m, s) ==
  Send(Line("SAFE", IF PyBool(m.enable) THEN 1 ELSE 0, 0, NoSeq), s)

TranslatePing(m, s) ==
  Send(Line("PING", 0, 0, NextSeq(s)), NextSeq(s))

\* Mutant: an led command whose mask int() refuses raises.
TranslateLedStrict(m, s) ==
  LET mask == PyInt(m.mask)
  IN IF mask.err # "none" THEN Raised(mask.err, s)
     ELSE Send(Line("LED", mask.v, 0, NoSeq), s)

TranslateLed(m, s) ==
  LET mask == PyInt(m.mask)
  IN Send(Line("LED", IF mask.err # "none" THEN 0 ELSE mask.v, 0, NoSeq), s)

\* Mutant: a dispatch that takes a message of no known type for a ping.
TranslateLoose(m, s) ==
  CASE m.j = "unparseable" -> Dropped(s)
    [] m.j = "array" -> Raised("AttributeError", s)
    [] m.type = "twist" -> TranslateTwist(m, s)
    [] m.type = "safe" -> TranslateSafe(m, s)
    [] m.type = "led" -> TranslateLed(m, s)
    [] OTHER -> TranslatePing(m, s)

Translate(m, s) ==
  CASE m.j = "unparseable" -> Dropped(s)
    [] m.j = "array" -> Raised("AttributeError", s)
    [] m.type = "twist" -> TranslateTwist(m, s)
    [] m.type = "safe" -> TranslateSafe(m, s)
    [] m.type = "ping" -> TranslatePing(m, s)
    [] m.type = "led" -> TranslateLed(m, s)
    [] OTHER -> Dropped(s)

\* ------------------------------------------------------------------- state

\* The device's output in the server specification: two lines.
DevStreams == { <<"a", LF, "b", LF>> }

\* The sequence counter at the start of a run: 1 as __init__ leaves it, or
\* 2^32 - 2, the value it has two commands before it wraps.
SeqStarts == { SeqAfterInit, <<Half - 1, Half - 2>> }

InitServer ==
  /\ ser = "None" /\ portOpen = FALSE /\ closeJob = FALSE
  /\ released = 0 /\ closeCalls = 0
  /\ lockHolder = 0 /\ lockWaiters = <<>>
  /\ wire = <<>> /\ wlog = <<>> /\ failAt = -1
  /\ ws_clients = {}
  /\ tx_count = 0 /\ rx_count = 0 /\ last_tx = NoLine /\ last_rx = NoRx
  /\ spc = [c \in Sessions |-> "idle"]
  /\ alive = [c \in Sessions |-> FALSE]
  /\ inbox = [c \in Sessions |-> <<>>]
  /\ cur = [c \in Sessions |-> NoLine]
  /\ werr = [c \in Sessions |-> "none"]
  /\ wdata = [c \in Sessions |-> <<>>]
  /\ esnap = [c \in Sessions |-> {}]
  /\ esnap0 = [c \in Sessions |-> {}]
  /\ exc = [c \in Sessions |-> "none"]
  /\ joinRx = [c \in Sessions |-> 0]
  /\ consumed = <<>> /\ buf = <<>> /\ yielded = <<>>
  /\ tline = <<>> /\ tcur = 0 /\ tsnap = {} /\ tsnap0 = {} /\ dead = {} /\ tries = 0
  /\ issued = <<>>
  /\ shutdownAt = -1

\* The messages of the command specification: a twist, a ping, a twist
\* whose vx or wz float() refuses, and text json.loads refuses.
CmdMsgs ==
  { Twist(Num(500), Num(-250)), Ping, Twist(Str(1), Num(0)),
    Twist(Num(0), Null), Unparseable }

InitBoot ==
  /\ InitServer
  /\ mainpc = "boot"
  /\ telpc = "off"
  /\ seq \in SeqStarts

InitCmd ==
  /\ InitBoot
  /\ dev = <<>>
  /\ menu = CmdMsgs
  /\ budget = MaxMsgs
  /\ quota = CmdSessions

InitTel ==
  /\ InitBoot
  /\ dev \in DevStreams
  /\ menu = {}
  /\ budget = 0
  /\ quota = NumSessions

\* ------------------------------------------------------------- main_async

\* dev = pick_serial_port(args.serial); TeleopServer(dev, args.baud)
MainResolve ==
  /\ mainpc = "boot"
  /\ \E found \in BOOLEAN : mainpc' = IF found THEN "made" ELSE "exit2"
  /\ UNCHANGED <<shutdownAt, menu, quota, serialVars, lockVars, wireVars, statVars,
                 sessVars, telVars, ws_clients>>

\* await server.start(): BrainstemSerial.open
MainOpen ==
  /\ mainpc = "made"
  /\ \E ok \in BOOLEAN :
       IF ok
       THEN ser' = "Ser" /\ portOpen' = TRUE /\ mainpc' = "opened"
       ELSE ser' = ser /\ portOpen' = portOpen /\ mainpc' = "failed"
  /\ UNCHANGED <<shutdownAt, menu, quota, closeJob, released, closeCalls,
                 lockVars, wireVars, statVars, sessVars, telVars, ws_clients>>

\* await runner.setup(); await site.start()
MainSiteStart ==
  /\ mainpc = "opened"
  /\ mainpc' = "serving"
  /\ UNCHANGED <<shutdownAt, menu, quota, serialVars, lockVars, wireVars, statVars,
                 sessVars, telVars, ws_clients>>

\* tel_task = asyncio.create_task(server.telemetry_task())
MainStartTel ==
  /\ mainpc = "serving"
  /\ mainpc' = "running"
  /\ telpc' = "read"
  /\ UNCHANGED <<shutdownAt, menu, quota, serialVars, lockVars, wireVars, statVars,
                 sessVars, ws_clients, dev, consumed, buf, yielded, tline, tcur,
                 tsnap, tsnap0, dead, tries, rx_count, last_rx>>

\* Mutant: a close that does not look at the transport's state.
CloseAlways == TRUE

\* if self._ser and self._ser.is_open
CloseNeeded == ser = "Ser" /\ portOpen

\* BrainstemSerial.close up to its executor call: the transport is marked
\* closed at once and ser.close is handed to the executor.
Close ==
  /\ closeCalls' = closeCalls + 1
  /\ IF CloseNeeded
     THEN ser' = "None" /\ closeJob' = TRUE
     ELSE ser' = ser /\ closeJob' = closeJob
  /\ UNCHANGED <<portOpen, released>>

\* finally: tel_task.cancel(); await server.serial.close(), up to the
\* executor call of close.
MainShutdown ==
  /\ mainpc = "running"
  /\ shutdownAt' = Len(wire)
  /\ telpc' = "cancelled"
  /\ mainpc' = IF CloseNeeded THEN "closing" ELSE "cleanup"
  /\ Close
  /\ UNCHANGED <<menu, quota, lockVars, wireVars, statVars, sessVars,
                 ws_clients, dev, consumed, buf, yielded, tline, tcur, tsnap, tsnap0,
                 dead, tries, rx_count, last_rx>>

\* ser.close, in an executor thread
ExecClose ==
  /\ closeJob
  /\ closeJob' = FALSE
  /\ portOpen' = FALSE
  /\ released' = IF portOpen THEN released + 1 ELSE released
  /\ UNCHANGED <<mainVars, ser, closeCalls, lockVars, wireVars, statVars, sessVars,
                 telVars, ws_clients>>

\* BrainstemSerial.close called by anyone, in any state of the transport.
CloseCall ==
  /\ closeCalls < MaxCloses
  /\ Close
  /\ UNCHANGED <<mainVars, lockVars, wireVars, statVars, sessVars, telVars,
                 ws_clients>>

\* close returns; await runner.cleanup() closes every client connection
MainCleanup ==
  /\ mainpc \in {"closing", "cleanup"}
  /\ ~closeJob
  /\ mainpc' = "done"
  /\ alive' = [c \in Sessions |-> FALSE]
  /\ UNCHANGED <<shutdownAt, menu, quota, serialVars, lockVars, wireVars, statVars,
                 spc, inbox, cur, werr, wdata, esnap, esnap0, exc, joinRx,
                 telVars, ws_clients>>

\* ------------------------------------------------------------- ws_handler

\* The site accepts connections from site.start() until runner.cleanup().
Accepting == mainpc \in {"serving", "running", "closing", "cleanup"}

Connected(c) == spc[c] \notin {"idle", "ended"}

\* The handler ends: finally: self.ws_clients.discard(ws); the server closes
\* the connection of a handler that has returned or raised.
EndHandler(c, e) ==
  /\ ws_clients' = ws_clients \ {c}
  /\ spc' = [spc EXCEPT ![c] = "ended"]
  /\ exc' = [exc EXCEPT ![c] = e]
  /\ alive' = [alive EXCEPT ![c] = FALSE]

\* Mutant: a handler that sends no hello.
NoGreeting == <<>>

\* What a handler sends before its receive loop: the hello, once.
Greeting == <<Hello>>

\* ws.prepare; self.ws_clients.add(ws); await ws.send_json(hello).  The peer
\* may be gone by then (ok = FALSE): send_json raises outside the try block.
Connect(c, ok) ==
  /\ Accepting
  /\ spc[c] = "idle"
  /\ c <= quota
  /\ \A d \in Sessions : d < c => spc[d] # "idle"
  /\ ws_clients' = ws_clients \cup {c}
  /\ joinRx' = [joinRx EXCEPT ![c] = rx_count]
  /\ alive' = [alive EXCEPT ![c] = ok]
  /\ inbox' = [inbox EXCEPT ![c] = IF ok THEN Greeting ELSE <<>>]
  /\ spc' = [spc EXCEPT ![c] = IF ok THEN "recv" ELSE "ended"]
  /\ exc' = [exc EXCEPT ![c] = IF ok THEN "none" ELSE "ConnectionResetError"]
  /\ UNCHANGED <<mainVars, serialVars, lockVars, wireVars, statVars, telVars,
                 cur, werr, wdata, esnap, esnap0>>

\* Mutant: a send that hands its frame over only when it returns.
FrameAtReturn(fr) == <<>>

\* What a send has handed to the connection when the call is made:
\* ws.send_json(...) is called right after ws_clients.add(ws), with no await
\* in between, and writes its frame before it can wait for the connection
\* to take more.
FrameAtCall(fr) == fr

\* ws_handler from ws_clients.add(ws) into the hello's send_json, with the
\* send still awaited: the session is in the registry, and the relay and
\* the echoes of others run before the handler goes on.
Register(c, ok) ==
  /\ Accepting
  /\ spc[c] = "idle"
  /\ c <= quota
  /\ \A d \in Sessions : d < c => spc[d] # "idle"
  /\ ws_clients' = ws_clients \cup {c}
  /\ joinRx' = [joinRx EXCEPT ![c] = rx_count]
  /\ alive' = [alive EXCEPT ![c] = ok]
  /\ inbox' = [inbox EXCEPT ![c] = IF ok THEN FrameAtCall(Greeting) ELSE <<>>]
  /\ spc' = [spc EXCEPT ![c] = IF ok THEN "hello" ELSE "ended"]
  /\ exc' = [exc EXCEPT ![c] = IF ok THEN "none" ELSE "ConnectionResetError"]
  /\ UNCHANGED <<mainVars, serialVars, lockVars, wireVars, statVars, telVars,
                 cur, werr, wdata, esnap, esnap0>>

\* The hello's send_json returns with the whole hello handed over, and the
\* handler enters its receive loop.
HelloDone(c) ==
  /\ spc[c] = "hello"
  /\ spc' = [spc EXCEPT ![c] = "recv"]
  /\ inbox' = [inbox EXCEPT ![c] =
                 @ \o SubSeq(Greeting, Len(FrameAtCall(Greeting)) + 1,
                             Len(Greeting))]
  /\ UNCHANGED <<mainVars, serialVars, lockVars, wireVars, statVars, telVars,
                 ws_clients, alive, cur, werr, wdata, esnap, esnap0, exc,
                 joinRx>>

\* The peer closes the connection, or the network drops it.
Drop(c) ==
  /\ Connected(c)
  /\ alive[c]
  /\ alive' = [alive EXCEPT ![c] = FALSE]
  /\ UNCHANGED <<mainVars, serialVars, lockVars, wireVars, statVars, telVars,
                 ws_clients, spc, inbox, cur, werr, wdata, esnap, esnap0, exc,
                 joinRx>>

\* async for msg in ws ends (close or error frame): the finally block.
RecvEnd(c) ==
  /\ spc[c] = "recv"
  /\ ~alive[c]
  /\ EndHandler(c, "none")
  /\ UNCHANGED <<mainVars, serialVars, lockVars, wireVars, statVars, telVars,
                 inbox, cur, werr, wdata, esnap, esnap0, joinRx>>

\* ----------------------------------------------- write_line and the echo

\* Mutant: write_line without its lock.
LockIgnored == TRUE

\* asyncio.Lock.acquire returns at once when the lock is free and nobody
\* waits for it.
LockFree == lockHolder = 0 /\ lockWaiters = <<>>

\* Mutant: a release that wakes the waiter that came last.
ReleaseLockLast ==
  /\ lockHolder' = IF lockWaiters # <<>> THEN lockWaiters[Len(lockWaiters)]
                   ELSE 0
  /\ lockWaiters' = IF lockWaiters # <<>>
                    THEN SubSeq(lockWaiters, 1, Len(lockWaiters) - 1)
                    ELSE <<>>

\* asyncio.Lock.release: the first waiter is woken and owns the lock.
ReleaseLock ==
  /\ lockHolder' = IF lockWaiters # <<>> THEN Head(lockWaiters) ELSE 0
  /\ lockWaiters' = IF lockWaiters # <<>> THEN Tail(lockWaiters) ELSE <<>>

\* await loop.run_in_executor(None, self._ser.write, data)
SubmitWrite(c, l) ==
  /\ wdata' = [wdata EXCEPT ![c] = Render(l)]
  /\ wlog' = Append(wlog, [s |-> c, line |-> l, data |-> Render(l), n |-> 0,
                           st |-> "run"])
  /\ spc' = [spc EXCEPT ![c] = "writing"]

\* Mutant: the echo goes to the other sessions, not to the sender.
BeginEchoOthers(c, e) ==
  /\ werr' = [werr EXCEPT ![c] = e]
  /\ esnap' = [esnap EXCEPT ![c] = ws_clients \ {c}]
  /\ esnap0' = [esnap0 EXCEPT ![c] = ws_clients \ {c}]
  /\ spc' = [spc EXCEPT ![c] = "echo"]

\* The finally block of handle_msg starts: payload, list(self.ws_clients).
\* e is the exception on its way out of the try block, "none" without one.
BeginEcho(c, e) ==
  /\ werr' = [werr EXCEPT ![c] = e]
  /\ esnap' = [esnap EXCEPT ![c] = ws_clients]
  /\ esnap0' = [esnap0 EXCEPT ![c] = ws_clients]
  /\ spc' = [spc EXCEPT ![c] = "echo"]

\* Mutant: the exception of a send ends the loop.
AfterSendErrorAbort(rest) == {}

\* What is left of a fan-out's list after a send raised: except Exception
\* swallows it and the loop goes on.
AfterSendError(rest) == rest

\* Mutant: a fan-out that never retires the sessions it has tried.
RemainingAll(snap) == tsnap0

\* The sessions a fan-out has still to visit: list(self.ws_clients) is a copy
\* of the registry, so a session unregistered meanwhile stays in it.
Remaining(snap) == snap

\* The write job of session c in the history.
JobIdx(c) ==
  CHOOSE i \in 1..Len(wlog) : wlog[i].s = c /\ wlog[i].st = "run"

\* write_line, from its call to its first suspension: the closed check, the
\* lock, the executor call.
\* Mutant: a write_line that does not test the transport.
NotOpenIgnored == FALSE

\* if not self._ser
NotOpen == ser = "None"

CallWriteLine(c, l) ==
  IF NotOpen
  THEN \* raise RuntimeError("serial not open")
       /\ BeginEcho(c, "RuntimeError")
       /\ UNCHANGED <<lockVars, wdata, wlog>>
  ELSE IF LockFree
  THEN /\ lockHolder' = c
       /\ lockWaiters' = lockWaiters
       /\ SubmitWrite(c, l)
       /\ UNCHANGED <<werr, esnap, esnap0>>
  ELSE /\ lockWaiters' = Append(lockWaiters, c)
       /\ lockHolder' = lockHolder
       /\ spc' = [spc EXCEPT ![c] = "lockwait"]
       /\ UNCHANGED <<wdata, wlog, werr, esnap, esnap0>>

\* A text message arrives: await self.handle_msg(ws, msg.data), up to its
\* first suspension.
Recv(c, m) ==
  /\ spc[c] = "recv"
  /\ alive[c]
  /\ budget > 0
  /\ budget' = budget - 1
  /\ LET r == Translate(m, seq)
     IN IF r.act = "drop"
        THEN UNCHANGED <<seq, issued, tx_count, last_tx, lockVars, wireVars,
                         sessVars, ws_clients>>
        ELSE IF r.act = "raise"
        THEN /\ EndHandler(c, r.err)
             /\ UNCHANGED <<seq, issued, tx_count, last_tx, lockVars,
                            wireVars, inbox, cur, werr, wdata, esnap, esnap0,
                            joinRx>>
        ELSE /\ seq' = r.seq
             /\ issued' = Append(issued, r.line)
             /\ cur' = [cur EXCEPT ![c] = r.line]
             /\ CallWriteLine(c, r.line)
             /\ UNCHANGED <<tx_count, last_tx, wire, failAt, alive, inbox,
                            exc, joinRx, ws_clients>>
  /\ UNCHANGED <<mainVars, serialVars, telVars>>

\* The lock is handed to a waiting write_line: it resumes inside
\* "async with self._lock" and evaluates self._ser.write.
LockGranted(c) ==
  /\ spc[c] = "lockwait"
  /\ lockHolder = c
  /\ IF ser = "None"
     THEN \* AttributeError: 'NoneType' object has no attribute 'write'
          /\ ReleaseLock
          /\ BeginEcho(c, "AttributeError")
          /\ UNCHANGED <<wdata, wlog>>
     ELSE /\ SubmitWrite(c, cur[c])
          /\ UNCHANGED <<lockVars, werr, esnap, esnap0>>
  /\ UNCHANGED <<mainVars, serialVars, wire, failAt, statVars, telVars,
                 ws_clients, alive, inbox, cur, exc, joinRx>>

\* Serial.write in an executor thread: os.write takes n of the bytes left.
ExecWrite(c, n) ==
  /\ spc[c] = "writing"
  /\ portOpen
  /\ n \in 1..Len(wdata[c])
  /\ wire' = wire \o SubSeq(wdata[c], 1, n)
  /\ wdata' = [wdata EXCEPT ![c] = SubSeq(@, n + 1, Len(@))]
  /\ wlog' = [wlog EXCEPT ![JobIdx(c)].n = @ + n]
  /\ UNCHANGED <<mainVars, serialVars, lockVars, failAt, statVars, telVars,
                 ws_clients, spc, alive, inbox, cur, werr, esnap, esnap0, exc,
                 joinRx>>

\* Serial.write raises: an I/O error of the device, or the port was closed
\* under it.
ExecWriteFail(c) ==
  /\ spc[c] = "writing"
  /\ wdata[c] # <<>>
  /\ spc' = [spc EXCEPT ![c] = "wraised"]
  /\ wlog' = [wlog EXCEPT ![JobIdx(c)].st = "fail"]
  /\ failAt' = IF failAt = -1 /\ portOpen THEN Len(wire) ELSE failAt
  /\ UNCHANGED <<mainVars, serialVars, lockVars, wire, statVars, telVars,
                 ws_clients, alive, inbox, cur, werr, wdata, esnap, esnap0,
                 exc, joinRx>>

\* Mutant: a counter that counts every event twice.
BumpTwice(n) == n + 2

\* self.tx_count += 1, self.rx_count += 1
Bump(n) == n + 1

\* The write job is done and write_line returns: the lock is released,
\* self.tx_count += 1; self.last_tx = line; then the finally block.
WriteDone(c) ==
  /\ spc[c] = "writing"
  /\ wdata[c] = <<>>
  /\ wlog' = [wlog EXCEPT ![JobIdx(c)].st = "ok"]
  /\ ReleaseLock
  /\ tx_count' = Bump(tx_count)
  /\ last_tx' = cur[c]
  /\ BeginEcho(c, "none")
  /\ UNCHANGED <<mainVars, serialVars, wire, failAt, seq, issued, budget,
                 telVars, ws_clients, alive, inbox, cur, wdata, exc, joinRx>>

\* The write job raised and write_line lets the exception through: the lock
\* is released, the stats are skipped, the finally block runs.
WriteRaised(c) ==
  /\ spc[c] = "wraised"
  /\ ReleaseLock
  /\ BeginEcho(c, "SerialException")
  /\ UNCHANGED <<mainVars, serialVars, wireVars, statVars, telVars,
                 ws_clients, alive, inbox, cur, wdata, exc, joinRx>>

\* for w in list(self.ws_clients): await w.send_str(payload), one send.
EchoSend(c, w) ==
  /\ spc[c] = "echo"
  /\ w \in Remaining(esnap[c])
  /\ inbox' = IF alive[w]
              THEN [inbox EXCEPT ![w] = Append(@, TxEvent(cur[c]))]
              ELSE inbox
  /\ esnap' = [esnap EXCEPT ![c] =
                 IF alive[w] THEN @ \ {w} ELSE AfterSendError(@ \ {w})]
  /\ UNCHANGED <<mainVars, serialVars, lockVars, wireVars, statVars, telVars,
                 ws_clients, spc, alive, cur, werr, wdata, esnap0, exc,
                 joinRx>>

\* The echo loop is over: handle_msg returns to the receive loop, or the
\* exception of write_line leaves it and ends the handler.  The locals of
\* handle_msg (line, the list, the exception) are gone.
EchoEnd(c) ==
  /\ spc[c] = "echo"
  /\ Remaining(esnap[c]) = {}
  /\ IF werr[c] = "none"
     THEN /\ spc' = [spc EXCEPT ![c] = "recv"]
          /\ UNCHANGED <<ws_clients, exc, alive>>
     ELSE EndHandler(c, werr[c])
  /\ cur' = [cur EXCEPT ![c] = NoLine]
  /\ werr' = [werr EXCEPT ![c] = "none"]
  /\ esnap0' = [esnap0 EXCEPT ![c] = {}]
  /\ UNCHANGED <<mainVars, serialVars, lockVars, wireVars, statVars, telVars,
                 inbox, wdata, esnap, joinRx>>

\* ---------------------------------------------- read_lines, telemetry_task

\* chunk = await loop.run_in_executor(None, read, 128): the n bytes the
\* device has sent by now, none of them (then asyncio.sleep(0.01) and the
\* next read) or up to 128.
TelRead(n) ==
  /\ telpc = "read"
  /\ n \in 0..(IF Len(dev) < ReadSize THEN Len(dev) ELSE ReadSize)
  /\ buf' = buf \o SubSeq(dev, 1, n)
  /\ consumed' = consumed \o SubSeq(dev, 1, n)
  /\ dev' = SubSeq(dev, n + 1, Len(dev))
  /\ telpc' = IF n = 0 THEN "read" ELSE "scan"
  /\ UNCHANGED <<mainVars, serialVars, lockVars, wireVars, statVars, sessVars,
                 ws_clients, yielded, tline, tcur, tsnap, tsnap0, dead, tries,
                 rx_count, last_rx>>

\* One turn of read_lines' inner loop and, when it yields a line, the body
\* of telemetry_task's loop up to its first send.
TelScan ==
  /\ telpc = "scan"
  /\ LET nl == IndexOfLF(buf)
         line == LineOf(buf, nl)
     IN IF nl = 0
        THEN /\ telpc' = "read"
             /\ UNCHANGED <<buf, yielded, tline, tcur, tsnap, tsnap0, dead, tries,
                            rx_count, last_rx>>
        ELSE /\ buf' = AfterLine(buf, nl)
             /\ yielded' = Append(yielded, line)
             /\ rx_count' = Bump(rx_count)
             /\ last_rx' = line
             /\ IF ws_clients = {}
                THEN /\ telpc' = "scan"
                     /\ UNCHANGED <<tline, tcur, tsnap, tsnap0, dead, tries>>
                ELSE /\ telpc' = "bcast"
                     /\ tline' = line
                     /\ tcur' = 0
                     /\ tsnap' = ws_clients
                     /\ tsnap0' = ws_clients
                     /\ dead' = {}
                     /\ tries' = 0
  /\ UNCHANGED <<mainVars, serialVars, lockVars, wireVars, statVars, sessVars,
                 ws_clients, dev, consumed>>

\* for ws in list(self.ws_clients): the loop takes the next session of the
\* list and calls ws.send_str(payload), which is awaited.
TelPick(w) ==
  /\ telpc = "bcast"
  /\ tcur = 0
  /\ w \in Remaining(tsnap)
  /\ tcur' = w
  /\ UNCHANGED <<mainVars, serialVars, lockVars, wireVars, statVars, sessVars,
                 ws_clients, telpc, dev, consumed, buf, yielded, tline, tsnap,
                 tsnap0, dead, tries, rx_count, last_rx>>

\* The awaited send_str returns, or raises (except Exception:
\* dead.append(ws)), and the loop goes on.
TelSend ==
  /\ telpc = "bcast"
  /\ tcur # 0
  /\ tries' = tries + 1
  /\ inbox' = IF alive[tcur]
              THEN [inbox EXCEPT ![tcur] = Append(@, RxEvent(tline))]
              ELSE inbox
  /\ dead' = IF alive[tcur] THEN dead ELSE dead \cup {tcur}
  /\ tsnap' = IF alive[tcur] THEN tsnap \ {tcur}
              ELSE AfterSendError(tsnap \ {tcur})
  /\ tcur' = 0
  /\ UNCHANGED <<mainVars, serialVars, lockVars, wireVars, statVars,
                 ws_clients, spc, alive, cur, werr, wdata, esnap, esnap0, exc,
                 joinRx, telpc, dev, consumed, buf, yielded, tline, tsnap0,
                 rx_count, last_rx>>

\* Mutant: the pruning empties the registry.
PrunedAll(clients, d) == {}

\* for ws in dead: self.ws_clients.discard(ws)
Pruned(clients, d) == clients \ d

\* The rx fan-out is over: the dead sessions are unregistered and read_lines
\* is resumed.
TelPrune ==
  /\ telpc = "bcast"
  /\ tcur = 0
  /\ Remaining(tsnap) = {}
  /\ ws_clients' = Pruned(ws_clients, dead)
  /\ telpc' = "scan"
  /\ tsnap' = {}
  /\ UNCHANGED <<mainVars, serialVars, lockVars, wireVars, statVars, sessVars,
                 dev, consumed, buf, yielded, tline, tcur, tsnap0, dead, tries,
                 rx_count, last_rx>>

\* ----------------------------------------------------------- specification

\* main_async up to its sleep loop.
StartStep ==
  \/ MainResolve
  \/ MainOpen
  \/ MainSiteStart
  \/ MainStartTel

\* The process is shut down.
StopStep ==
  \/ MainShutdown
  \/ ExecClose
  \/ MainCleanup

\* Connections come and go.
SessionStep ==
  \/ \E c \in Sessions, ok \in BOOLEAN : Connect(c, ok)
  \/ \E c \in Sessions : Drop(c)
  \/ \E c \in Sessions : RecvEnd(c)

\* Clients send commands, which are written and echoed.
CommandStep ==
  \/ \E c \in Sessions, m \in menu : Recv(c, m)
  \/ \E c \in Sessions : \E n \in 1..Len(wdata[c]) : ExecWrite(c, n)
  \/ \E c \in Sessions : WriteDone(c)
  \/ \E c, w \in Sessions : EchoSend(c, w)
  \/ \E c \in Sessions : EchoEnd(c)

\* A command waits for the write of another.
LockStep == \E c \in Sessions : LockGranted(c)

\* A write fails.
FaultStep ==
  \/ \E c \in Sessions : ExecWriteFail(c)
  \/ \E c \in Sessions : WriteRaised(c)

\* The device sends lines, which are read and fanned out.
TelemetryStep ==
  \/ \E n \in 0..ReadSize : TelRead(n)
  \/ TelScan
  \/ \E w \in Sessions : TelPick(w)
  \/ TelSend
  \/ TelPrune

\* The command side: clients connect, send commands and leave while the
\* device stays silent (every read of read_lines comes back empty).
NextCmd ==
  StartStep \/ StopStep \/ SessionStep \/ CommandStep \/ LockStep \/ FaultStep

SpecCmd == InitCmd /\ [][NextCmd]_vars

\* The reader alone: the server starts and nobody connects, while the device
\* sends any stream of bytes in any chunks.
Bytes == {"a", "b", CR, LF, HI}
AllStreams == UNION { [1..k -> Bytes] : k \in 0..MaxStream }

InitRead ==
  /\ InitServer
  /\ mainpc = "boot"
  /\ telpc = "off"
  /\ seq = SeqAfterInit
  /\ dev \in AllStreams
  /\ menu = {}
  /\ budget = 0
  /\ quota = 0

NextRead ==
  \/ StartStep
  \/ \E n \in 0..ReadSize : TelRead(n)
  \/ TelScan

SpecRead == InitRead /\ [][NextRead]_vars

\* The telemetry side: the device sends its lines to clients that connect
\* and leave and send nothing.
NextTel == StartStep \/ StopStep \/ SessionStep \/ TelemetryStep

SpecTel == InitTel /\ [][NextTel]_vars

\* Both sides at once while the server runs: clients that connect and
\* leave, one of them sending a ping, and a device that sends one line and
\* takes the write.
InitBoth ==
  /\ InitServer
  /\ mainpc = "boot"
  /\ telpc = "off"
  /\ seq = SeqAfterInit
  /\ dev = <<"a", LF>>
  /\ menu = {Ping}
  /\ budget = 1
  /\ quota = NumSessions

Next == StartStep \/ SessionStep \/ CommandStep \/ TelemetryStep

Spec == InitBoth /\ [][Next]_vars

\* A connection's first moments: clients connect while the relay fans a
\* line out and a client's ping is echoed, each hello's send still awaited.
NextHello ==
  \/ StartStep
  \/ \E c \in Sessions, ok \in BOOLEAN : Register(c, ok)
  \/ \E c \in Sessions : HelloDone(c)
  \/ CommandStep
  \/ TelemetryStep

SpecHello == InitBoth /\ [][NextHello]_vars

\* The transport's life: close is called at any moment and any number of
\* times, before the transport is opened, while a client's ping is being
\* written, and after the shutdown's own close.
InitClose ==
  /\ InitBoot
  /\ dev = <<>>
  /\ menu = {Ping}
  /\ budget = 1
  /\ quota = 1

NextClose ==
  StartStep \/ StopStep \/ CloseCall \/ SessionStep \/ CommandStep
    \/ FaultStep

SpecClose == InitClose /\ [][NextClose]_vars

\* The stats: one client sends commands, some of whose writes fail, while
\* the device sends its lines.
InitStats ==
  /\ InitServer
  /\ mainpc = "boot"
  /\ telpc = "off"
  /\ seq = SeqAfterInit
  /\ dev \in DevStreams
  /\ menu = {Ping, Twist(Num(500), Num(-250))}
  /\ budget = MaxMsgs
  /\ quota = 1

NextStats ==
  StartStep \/ SessionStep \/ CommandStep \/ FaultStep \/ TelemetryStep

SpecStats == InitStats /\ [][NextStats]_vars

\* The write order: three clients send pings and twists, so that two of them
\* can wait for the lock while the third writes.
InitOrder ==
  /\ InitServer
  /\ mainpc = "boot"
  /\ telpc = "off"
  /\ seq = SeqAfterInit
  /\ dev = <<>>
  /\ menu = {Ping, Twist(Num(500), Num(-250))}
  /\ budget = NumSessions
  /\ quota = NumSessions

\* Every kind of message: clients send any of them while the device stays
\* silent and takes every write.
InitMsg ==
  /\ InitBoot
  /\ dev = <<>>
  /\ menu = Msgs
  /\ budget = MaxMsgs
  /\ quota = CmdSessions

NextMsg == StartStep \/ SessionStep \/ CommandStep \/ LockStep

SpecMsg == InitMsg /\ [][NextMsg]_vars

\* Three clients stay connected and send their commands.
NextOrder ==
  \/ StartStep
  \/ \E c \in Sessions : Connect(c, TRUE)
  \/ CommandStep
  \/ LockStep

SpecOrder == InitOrder /\ [][NextOrder]_vars

\* Messages of no known type: clients send a ping, an object of a type
\* handle_msg does not know, or an object without a type.
UnknownMsgs ==
  { Ping, Obj("estop", Absent, Absent, Absent, Absent),
    Obj("", Absent, Absent, Absent, Absent) }

InitUnknown ==
  /\ InitBoot
  /\ dev = <<>>
  /\ menu = UnknownMsgs
  /\ budget = MaxMsgs
  /\ quota = CmdSessions

SpecUnknown == InitUnknown /\ [][NextMsg]_vars

\* ================================================================== claims

\* ---- C1

RECURSIVE Written(_)
\* The bytes the write jobs of a history have written, job after job.
Written(log) ==
  IF log = <<>> THEN <<>>
  ELSE SubSeq(Head(log).data, 1, Head(log).n) \o Written(Tail(log))

InFlight == { i \in 1..Len(wlog) : wlog[i].st = "run" }

\* C1: whatever the interleaving of the write_line calls, the bytes handed
\* to the device are the rendered lines of the calls one after the other,
\* each contiguous (a call that has not finished, or whose write failed,
\* contributes the part it wrote), each rendered line is the text of the
\* line and exactly one newline, a finished call has written all of its
\* line, and at no time are two writes in flight.
C1_WritesSerialized ==
  /\ wire = Written(wlog)
  /\ Cardinality(InFlight) <= 1
  /\ \A i \in 1..Len(wlog) :
       /\ wlog[i].data = LineText(wlog[i].line) \o <<NLByte>>
       /\ Count(wlog[i].data, NLByte) = 1
       /\ wlog[i].st = "ok" => wlog[i].n = Len(wlog[i].data)
       /\ \E k \in 1..Len(issued) : issued[k] = wlog[i].line

\* C1 witness: one write_line has written part of its line while another
\* session's write_line waits for the lock.
C1_Witness ==
  \E i \in InFlight :
    /\ 0 < wlog[i].n /\ wlog[i].n < Len(wlog[i].data)
    /\ lockWaiters # <<>>
    /\ Head(lockWaiters) # wlog[i].s

\* ---- C4

IsSeqLine(l) == l.cmd \in {"TWIST", "PING"}
SeqLines == SelectSeq(issued, IsSeqLine)

\* b is a + 1 modulo 2^32, on halves.
IsSucc32(a, b) ==
  IF a[2] < Half - 1 THEN b = <<a[1], a[2] + 1>>
  ELSE IF a[1] < Half - 1 THEN b = <<a[1] + 1, 0>>
  ELSE b = <<0, 0>>

In32(a) == a[1] \in 0..(Half - 1) /\ a[2] \in 0..(Half - 1)

\* C4: over any mix and interleaving of twist and ping messages, every
\* rendered TWIST or PING line carries a 32-bit number, each the number of
\* the seq-bearing line rendered before it plus one modulo 2^32, and no two
\* lines carry the same number.
C4_SeqIncreasesMod32 ==
  /\ \A i \in 1..Len(SeqLines) : In32(SeqLines[i].n)
  /\ \A i \in 1..(Len(SeqLines) - 1) :
       IsSucc32(SeqLines[i].n, SeqLines[i + 1].n)
  /\ \A i, j \in 1..Len(SeqLines) : i # j => SeqLines[i].n # SeqLines[j].n
  /\ SeqLines # <<>> => seq = SeqLines[Len(SeqLines)].n

\* C4 witness: a twist and a ping of two sessions were rendered across the
\* wrap, with 2^32 - 1 and then 0.
C4_Witness ==
  \E i \in 1..(Len(SeqLines) - 1) :
    /\ SeqLines[i].n = <<Half - 1, Half - 1>>
    /\ SeqLines[i + 1].n = <<0, 0>>
    /\ SeqLines[i].cmd # SeqLines[i + 1].cmd
    /\ \E c, d \in Sessions : c # d /\ cur[c] = SeqLines[i] /\ cur[d] = SeqLines[i + 1]

\* ---- C2

RECURSIVE SplitAt(_, _, _)
\* The segments of a byte stream that end with the byte nl, without it; acc
\* is the segment under way.  What follows the last nl is left out.
SplitAt(bytes, nl, acc) ==
  IF bytes = <<>> THEN <<>>
  ELSE IF Head(bytes) = nl THEN <<acc>> \o SplitAt(Tail(bytes), nl, <<>>)
  ELSE SplitAt(Tail(bytes), nl, Append(acc, Head(bytes)))

RECURSIVE PartialTail(_, _)
\* What follows the last newline of a byte stream.
PartialTail(bytes, acc) ==
  IF bytes = <<>> THEN acc
  ELSE IF Head(bytes) = LF THEN PartialTail(Tail(bytes), <<>>)
  ELSE PartialTail(Tail(bytes), Append(acc, Head(bytes)))

\* The lines of a byte stream: each newline-terminated segment as text,
\* without its line ending.
ExpectedLines(bytes) ==
  LET segs == SplitAt(bytes, LF, <<>>)
  IN [i \in 1..Len(segs) |-> RStripCR(Decode(segs[i]))]

\* C2: however the device's byte stream is cut into chunks (empty reads, a
\* cut in the middle of a line, several lines and a partial tail in one
\* chunk), read_lines yields the newline-terminated lines of the bytes read
\* so far, in order, none dropped or repeated: at every moment what it has
\* yielded is a prefix of those lines, and whenever it waits for the next
\* chunk it has yielded all of them and holds exactly the partial tail.
C2_ReadLinesFraming ==
  /\ IsPrefix(yielded, ExpectedLines(consumed))
  /\ telpc = "read" =>
       /\ yielded = ExpectedLines(consumed)
       /\ buf = PartialTail(consumed, <<>>)
  /\ rx_count = Len(yielded)

\* C2 witness: read_lines has yielded two lines, holds a partial tail whose
\* newline the device has yet to send, and waits for the next chunk.
C2_Witness ==
  /\ telpc = "read"
  /\ Len(yielded) = 2
  /\ yielded[1] # yielded[2]
  /\ buf # <<>>
  /\ dev = <<LF>>

\* ---- C3

HasRx(w, t) == Count(inbox[w], RxEvent(t)) >= 1
HasTx(w, l) == Count(inbox[w], TxEvent(l)) >= 1

\* C3: in the rx fan-out of telemetry_task and in the tx echo of handle_msg,
\* every session of the list the fan-out has passed was either sent the
\* payload or its send failed, whatever happened to the sessions before it:
\* a session whose delivery fails keeps no other session of the list from
\* its payload, and the loop ends when the list is used up.
C3_FailureIsolated ==
  /\ tsnap \subseteq tsnap0
  /\ dead \subseteq tsnap0 \ tsnap
  /\ \A w \in dead : ~alive[w]
  /\ \A w \in tsnap0 \ tsnap : w \in dead \/ HasRx(w, tline)
  /\ telpc = "scan" => tsnap = {}
  /\ \A c \in Sessions :
       /\ esnap[c] \subseteq esnap0[c]
       /\ spc[c] = "echo" =>
            \A w \in esnap0[c] \ esnap[c] : ~alive[w] \/ HasTx(w, cur[c])
       /\ spc[c] = "recv" => esnap[c] = {}

\* C3 witness: an rx fan-out and a tx echo, each over three registered
\* sessions one of which could not be sent to, have both come to their end
\* with the payload delivered to the two others.
C3_Witness ==
  /\ telpc = "bcast" /\ tsnap = {}
  /\ Cardinality(tsnap0) = 3 /\ Cardinality(dead) = 1
  /\ \A w \in tsnap0 \ dead : HasRx(w, tline)
  /\ \E c \in Sessions :
       /\ spc[c] = "echo" /\ esnap[c] = {}
       /\ Cardinality(esnap0[c]) = 3
       /\ Cardinality({w \in esnap0[c] : HasTx(w, cur[c])}) = 2
       /\ \E w \in dead : ~HasTx(w, cur[c])

\* ---- C5

\* How many times the bytes pat stand in the byte sequence s.
Occurrences(s, pat) ==
  Cardinality({ i \in 1..(Len(s) - Len(pat) + 1) :
                  SubSeq(s, i, i + Len(pat) - 1) = pat })

\* How many times line l, with its newline, was written to the device.
TimesWritten(l) == Occurrences(wire, LineText(l) \o <<NLByte>>)

\* Session c has handled a ping whose write_line returned, and has sent its
\* last echo.
PingDone(c) ==
  /\ spc[c] = "echo" /\ esnap[c] = {}
  /\ cur[c].cmd = "PING"
  /\ werr[c] = "none"

\* C5: a ping of a connected client whose write_line returns (the transport
\* is open and the device takes the bytes) puts exactly one line PING,<n> on
\* the wire and exactly one tx event with that line in front of every client
\* connected then, the sender among them: the registry holds every connected
\* client, the echo's list is the registry, and neither the line nor its
\* event is ever repeated.
C5_PingWrittenAndEchoed ==
  /\ \A w \in Sessions : Connected(w) /\ alive[w] => w \in ws_clients
  /\ \A c \in Sessions : PingDone(c) =>
       /\ alive[c] => c \in esnap0[c]
       /\ TimesWritten(cur[c]) = 1
       /\ \A w \in esnap0[c] :
            alive[w] => Count(inbox[w], TxEvent(cur[c])) = 1
  /\ \A k \in 1..Len(issued) : issued[k].cmd = "PING" =>
       /\ TimesWritten(issued[k]) <= 1
       /\ \A w \in Sessions : Count(inbox[w], TxEvent(issued[k])) <= 1

\* C5 witness: a session has handled a ping to its end while a second client
\* was connected; the line is on the wire and both hold its tx event.
C5_Witness ==
  \E c \in Sessions :
    /\ PingDone(c)
    /\ Cardinality(esnap0[c]) = 2
    /\ \A w \in esnap0[c] :
         alive[w] /\ Count(inbox[w], TxEvent(cur[c])) = 1
    /\ TimesWritten(cur[c]) = 1

\* ---- C6

\* The lines of the rx events session w was sent, in the order sent.
RxLines(w) ==
  LET evs == SelectSeq(inbox[w], LAMBDA e : e.type = "rx")
  IN [i \in 1..Len(evs) |-> evs[i].rx]

\* The lines read_lines yielded since session w registered.
LinesSince(w) == SubSeq(yielded, joinRx[w] + 1, Len(yielded))

\* Session w is in the list of the fan-out under way and not yet visited.
RxPending(w) == telpc = "bcast" /\ w \in tsnap

\* C6: the rx events a client was sent carry the lines read from the device
\* since it connected, each once and in the order read, and while the relay
\* runs a connected client has been sent every one of them, the line of the
\* fan-out under way excepted until the loop reaches the client.
C6_EveryLineToEveryClient ==
  /\ \A w \in Sessions : IsPrefix(RxLines(w), LinesSince(w))
  /\ telpc # "cancelled" =>
       \A w \in Sessions : Connected(w) /\ alive[w] =>
         /\ w \in ws_clients
         /\ RxLines(w) =
              IF RxPending(w)
              THEN SubSeq(yielded, joinRx[w] + 1, Len(yielded) - 1)
              ELSE LinesSince(w)

\* C6 witness: two clients were connected while the device sent two lines,
\* and both hold the two rx events in the order read.
C6_Witness ==
  /\ Len(yielded) = 2 /\ yielded[1] # yielded[2]
  /\ \E a, b \in Sessions :
       /\ a # b
       /\ \A w \in {a, b} :
            Connected(w) /\ alive[w] /\ joinRx[w] = 0 /\ RxLines(w) = yielded

\* ---- C7

\* float() refuses the value.
NonNumeric(x) == x.k \in {"str", "null"}

\* The twist messages of the menu whose vx or wz is not numeric.
BadTwists ==
  { m \in menu : m.j = "object" /\ m.type = "twist"
                  /\ (NonNumeric(m.vx) \/ NonNumeric(m.wz)) }

\* C7: the handling of a twist message whose vx or wz is not numeric writes
\* nothing to the device and sends nothing: no byte and no write job is
\* added, the write lock is not touched, the sequence counter, tx_count and
\* last_tx stay as they are, and no client, the sender included, is sent
\* anything.
C7_BadTwistDoesNothing ==
  [][\A c \in Sessions : \A m \in BadTwists :
       Recv(c, m) =>
         /\ wire' = wire /\ wlog' = wlog /\ wdata' = wdata
         /\ issued' = issued
         /\ lockHolder' = lockHolder /\ lockWaiters' = lockWaiters
         /\ seq' = seq /\ tx_count' = tx_count /\ last_tx' = last_tx
         /\ inbox' = inbox]_vars

\* C7 witness: a session has handled a twist that float() refused, which
\* ended its handler, while another client is connected.
C7_Witness ==
  \E c, w \in Sessions :
    /\ c # w
    /\ spc[c] = "ended" /\ exc[c] \in {"ValueError", "TypeError"}
    /\ Connected(w) /\ alive[w]
    /\ inbox[c] = <<Hello>> /\ inbox[w] = <<Hello>>
    /\ wire = <<>> /\ tx_count = 0

\* ---- C8

\* C8: an rx fan-out makes one delivery attempt for each session of the list
\* it took at its start and no more, whatever is unregistered meanwhile, and
\* when the list is used up every session of it that is still connected has
\* been sent the line.
C8_BroadcastBounded ==
  /\ tries <= Cardinality(tsnap0)
  /\ telpc = "bcast" =>
       /\ tries = Cardinality(tsnap0 \ tsnap)
       /\ tsnap = {} =>
            \A w \in tsnap0 : Connected(w) /\ alive[w] =>
              Count(inbox[w], RxEvent(tline)) = 1

\* C8 witness: of three sessions in the list of a fan-out one went away and
\* was unregistered by its own handler before the fan-out ended; the fan-out
\* made three attempts and the two others hold the line.
C8_Witness ==
  /\ telpc = "bcast" /\ tsnap = {}
  /\ Cardinality(tsnap0) = 3 /\ tries = 3
  /\ \E w \in tsnap0 :
       /\ spc[w] = "ended" /\ exc[w] = "none" /\ w \notin ws_clients
       /\ \A v \in tsnap0 \ {w} :
            Connected(v) /\ alive[v] /\ Count(inbox[v], RxEvent(tline)) = 1

\* ---- C9

\* C9: once shutdown has begun, no byte is written to the device.
C9_NoWriteAfterShutdown ==
  shutdownAt >= 0 => Len(wire) = shutdownAt

\* ---- C10

\* C10: after the first write that failed with an I/O error, no byte is
\* written to the device.
C10_WriteFailureIsFatal ==
  failAt >= 0 => Len(wire) = failAt

\* ---- C11

\* C11: when a fan-out has come to its end, no session it failed to deliver
\* to is left in the registry: none of the dead list of the rx fan-out, and
\* none of the sessions of a tx echo that were not sent its event.
C11_FailedSessionRemoved ==
  /\ telpc \in {"scan", "read"} => dead \cap ws_clients = {}
  /\ \A c \in Sessions :
       spc[c] = "echo" /\ esnap[c] = {} =>
         \A w \in esnap0[c] : ~HasTx(w, cur[c]) => w \notin ws_clients

\* ---- C12

\* C12: a session whose connection handler has ended is not in the registry.
C12_EndedSessionUnregistered ==
  \A c \in Sessions : spc[c] = "ended" => c \notin ws_clients

\* ---- C13

\* The types handle_msg knows.
KnownTypes == {"twist", "safe", "ping", "led"}

\* The messages of the menu that are an object of no known type.
UnknownType == { m \in menu : m.j = "object" /\ m.type \notin KnownTypes }

\* The malformed messages of the menu: text that is no JSON, JSON that is
\* no object, an object of no known type, a twist whose vx or wz is not
\* numeric.
Malformed ==
  { m \in menu : m.j \in {"unparseable", "array"} } \cup UnknownType
    \cup BadTwists

\* C13: the handling of a malformed message leaves the sender's session
\* connected, registered and waiting for its next message.
C13_MalformedLeavesSession ==
  [][\A c \in Sessions : \A m \in Malformed :
       Recv(c, m) =>
         /\ spc'[c] = "recv"
         /\ alive'[c]
         /\ c \in ws_clients']_vars

\* ---- C14

\* C14: a call of close leaves the transport marked closed; a call that
\* finds it closed (never opened, or closed before) changes nothing and
\* hands no second ser.close to the executor; the device is released at
\* most once, and once no close job is left the port is shut.
C14_CloseIdempotent ==
  [][/\ CloseCall =>
          /\ ser' = "None"
          /\ ser = "None" => UNCHANGED <<ser, portOpen, closeJob, released>>
     /\ released' <= 1
     /\ (ser' = "None" /\ ~closeJob') => ~portOpen']_vars

\* C14 witness: close was called three times on a transport that had been
\* opened; the device was released once and the transport is closed.
C14_Witness ==
  /\ closeCalls = MaxCloses
  /\ released = 1
  /\ ser = "None" /\ ~portOpen /\ ~closeJob

\* ---- C15

\* C15: no client is ever sent a second hello; a connection that is up has
\* been sent its hello before anything else; and when a message of a
\* connection is dispatched to handle_msg the hello has been sent.
C15_HelloOnceAndFirst ==
  [][\A c \in Sessions :
       /\ Count(inbox'[c], Hello) <= 1
       /\ (spc'[c] # "idle" /\ alive'[c]) =>
            (inbox'[c] # <<>> /\ Head(inbox'[c]) = Hello)
       /\ \A m \in menu :
            Recv(c, m) => (inbox[c] # <<>> /\ Head(inbox[c]) = Hello)]_vars

\* C15 witness: a client holds its hello, once and first, followed by the
\* echoes of two commands it sent.
C15_Witness ==
  \E c \in Sessions :
    /\ Len(inbox[c]) = 3
    /\ inbox[c][1] = Hello
    /\ inbox[c][2].type = "tx" /\ inbox[c][3].type = "tx"
    /\ inbox[c][2].tx = issued[1] /\ inbox[c][3].tx = issued[2]
    /\ Count(inbox[c], Hello) = 1

\* ---- C16

\* C16: whenever the site accepts connections or a connection has been
\* accepted, the transport has been opened and the telemetry relay has been
\* started.
C16_AcceptAfterRelay ==
  (Accepting \/ \E c \in Sessions : spc[c] # "idle") =>
    /\ ser = "Ser" \/ closeCalls > 0
    /\ telpc # "off"

\* ---- C17

\* C17: while the relay's send to one session has not returned, the relay
\* can take the next session of the list if one is left, and can go on
\* reading the device.
C17_RelayNeverBlocks ==
  (telpc = "bcast" /\ tcur # 0) =>
    /\ tsnap \ {tcur} # {} =>
         ENABLED (\E w \in Sessions \ {tcur} : TelPick(w))
    /\ ENABLED (TelScan \/ \E n \in 0..ReadSize : TelRead(n))

\* ---- C18

\* C18: the handling of an object whose type is missing or not known writes
\* nothing and sends nothing: no write job, no byte, no lock, no echo, and
\* the sequence counter, tx_count, last_tx, the registry and every session
\* stay as they are.
C18_UnknownTypeDropped ==
  [][\A c \in Sessions : \A m \in UnknownType :
       Recv(c, m) =>
         UNCHANGED <<wire, wlog, wdata, issued, lockHolder, lockWaiters, seq,
                     tx_count, last_tx, inbox, ws_clients, spc, alive, cur,
                     exc>>]_vars

\* C18 witness: the clients have sent two messages of which one was a ping;
\* the other, of no known type, left no trace: one line was rendered and
\* written, and the sender holds its hello and the one echo.
C18_Witness ==
  /\ UnknownType # {}
  /\ budget = MaxMsgs - 2
  /\ Len(issued) = 1 /\ tx_count = 1 /\ last_tx = issued[1]
  /\ TimesWritten(issued[1]) = 1
  /\ \E c \in Sessions :
       /\ spc[c] = "recv" /\ alive[c]
       /\ inbox[c] = <<Hello, TxEvent(issued[1])>>
       /\ \A w \in Sessions \ {c} : spc[w] = "idle"

\* ---- C19

\* The messages of the menu that are no JSON, or are of a known type and
\* lack a field of it.
MissingField ==
  { m \in menu :
      \/ m.j = "unparseable"
      \/ /\ m.j = "object"
         /\ \/ m.type = "twist" /\ (m.vx = Absent \/ m.wz = Absent)
            \/ m.type = "safe" /\ m.enable = Absent
            \/ m.type = "led" /\ m.mask = Absent }

\* C19: the handling of such a message renders no line, hands no write to
\* the device, does not advance the sequence counter, changes no stats and
\* sends nothing.
C19_MissingFieldDropped ==
  [][\A c \in Sessions : \A m \in MissingField :
       Recv(c, m) =>
         UNCHANGED <<wire, wlog, wdata, issued, seq, tx_count, last_tx,
                     inbox>>]_vars

\* ---- C20

\* A write_line is under way: a handler waits for the lock, for its write
\* job, or has yet to see the job's exception.
WriteInProgress ==
  \E c \in Sessions : spc[c] \in {"lockwait", "writing", "wraised"}

\* The write jobs that have handed their whole line to the device.
CompletedWrites == SelectSeq(wlog, LAMBDA j : j.n = Len(j.data))

\* The stats agree with the traffic.
StatsExact ==
  /\ tx_count <= Len(CompletedWrites)
  /\ ~WriteInProgress =>
       /\ tx_count = Len(CompletedWrites)
       /\ last_tx = IF CompletedWrites = <<>> THEN NoLine
                    ELSE CompletedWrites[Len(CompletedWrites)].line
  /\ rx_count = Len(yielded)
  /\ last_rx = IF yielded = <<>> THEN NoRx ELSE yielded[Len(yielded)]

\* C20: after every step the stats agree with the traffic: tx_count never
\* exceeds the number of completed writes and equals it whenever no write
\* is under way, last_tx is then the line written last, rx_count is the
\* number of lines read_lines has yielded and last_rx the latest of them;
\* and no step decreases a counter.
C20_StatsTrackTraffic ==
  [][/\ StatsExact'
     /\ tx_count' >= tx_count
     /\ rx_count' >= rx_count]_vars

\* C20 witness: of two commands the first was written and the write of the
\* second failed half-way, and the device has sent two lines, the last
\* while no client was registered: the stats count one write and two lines.
C20_Witness ==
  /\ ~WriteInProgress
  /\ Len(wlog) = 2
  /\ wlog[1].st = "ok"
  /\ wlog[2].st = "fail" /\ wlog[2].n > 0
  /\ tx_count = 1 /\ last_tx = wlog[1].line
  /\ rx_count = 2 /\ last_rx = yielded[2]
  /\ ws_clients = {}

\* ---- C21

\* A text without its last character if that is a carriage return.
StripOneCR(t) ==
  IF t # <<>> /\ t[Len(t)] = CR THEN SubSeq(t, 1, Len(t) - 1) ELSE t

\* The lines of a byte stream when one carriage return at most is taken
\* from the end of each.
LinesLessOneCR(bytes) ==
  LET segs == SplitAt(bytes, LF, <<>>)
  IN [i \in 1..Len(segs) |-> StripOneCR(Decode(segs[i]))]

\* C21: every line read_lines yields is the line's bytes without one
\* trailing carriage return, if there is one, and with nothing else taken
\* away: B, CR, CR, LF yields B, CR.
C21_OneCRStripped ==
  IsPrefix(yielded, LinesLessOneCR(consumed))

\* ---- C22

\* The messages of the menu that render a line with a sequence number: a
\* ping, and a twist whose vx and wz are numeric.
SeqUsers ==
  { m \in menu : m.j = "object" /\ m.type \in {"twist", "ping"} } \ BadTwists

\* C22: the handling of a ping or of a well-formed twist advances the
\* sequence counter by exactly one and renders a line that carries the new
\* value; the handling of any other message (safe, led, dropped) leaves the
\* counter as it is; no other step changes it; and no SAFE or LED line
\* carries a sequence number.
C22_OnlyTwistAndPingUseSeq ==
  [][/\ \A c \in Sessions : \A m \in menu :
          Recv(c, m) =>
            IF m \in SeqUsers
            THEN /\ IsSucc32(seq, seq')
                 /\ Len(issued') = Len(issued) + 1
                 /\ issued'[Len(issued')].n = seq'
                 /\ issued'[Len(issued')].cmd = (IF m.type = "twist"
                                                  THEN "TWIST" ELSE "PING")
            ELSE seq' = seq
     /\ (\A c \in Sessions : \A m \in menu : ~Recv(c, m)) => seq' = seq
     /\ \A k \in 1..Len(issued') :
          issued'[k].cmd \in {"SAFE", "LED"} <=> issued'[k].n = NoSeq]_vars

\* C22 witness: a safe and a ping were handled, in this order: two lines
\* were rendered and the counter is one past its start, the value of the
\* ping's line.
C22_Witness ==
  /\ Len(issued) = 2
  /\ issued[1].cmd = "SAFE" /\ issued[1].n = NoSeq
  /\ issued[2].cmd = "PING" /\ issued[2].n = seq
  /\ \E s0 \in SeqStarts : IsSucc32(s0, seq)

\* ---- C23

\* The messages of the menu for which handle_msg calls write_line.
Sendable ==
  { m \in menu : m.j = "object" /\ m.type \in KnownTypes } \ BadTwists

\* C23: a command handled while the transport is closed has its write_line
\* raise: no write job is made, no byte is handed to the device, the lock
\* is not taken and tx_count and last_tx stay; and once close has run and
\* no write job is left over from before, no step writes a byte or changes
\* tx_count or last_tx.
C23_ClosedTransportRejects ==
  [][/\ \A c \in Sessions : \A m \in Sendable :
          (ser = "None" /\ Recv(c, m)) =>
            /\ werr'[c] = "RuntimeError"
            /\ spc'[c] = "echo"
            /\ UNCHANGED <<wire, wlog, wdata, tx_count, last_tx, lockHolder,
                           lockWaiters>>
     /\ (ser = "None" /\ ~closeJob /\ \A c \in Sessions : spc[c] # "writing")
          => UNCHANGED <<wire, tx_count, last_tx>>]_vars

\* C23 witness: a client had a command written and echoed, the process
\* shut down and close ran while the client was still connected, and the
\* client's next command found the transport closed: its write_line raised
\* and the stats are those of the first command.
C23_Witness ==
  \E c \in Sessions :
    /\ spc[c] = "echo" /\ werr[c] = "RuntimeError" /\ alive[c]
    /\ ser = "None" /\ ~closeJob /\ ~portOpen /\ released = 1
    /\ Len(issued) = 2
    /\ tx_count = 1 /\ last_tx = issued[1]
    /\ wire = Render(issued[1])
    /\ Count(inbox[c], TxEvent(issued[1])) = 1

\* ---- C24

\* The led messages of the menu.
LedMsgs == { m \in menu : m.j = "object" /\ m.type = "led" }

\* The mask of an led message: what int() makes of a number, 0 for a mask
\* that is absent or that int() refuses.
MaskOf(m) ==
  CASE m.mask.k \in {"absent", "str", "null"} -> 0
    [] m.mask.k = "bool" -> m.mask.v
    [] m.mask.k = "numstr" ->
         IF m.mask.v % 1000 = 0 THEN m.mask.v \div 1000 ELSE 0
    [] OTHER -> IF m.mask.v >= 0 THEN m.mask.v \div 1000
                ELSE -((-m.mask.v) \div 1000)

\* C24: the handling of an led message renders the one line LED,<mask>,
\* with mask 0 when the field is absent or is no integer, and calls
\* write_line with it: the write job is handed to the executor or waits for
\* the lock, and the session stays connected and registered; and every
\* such line whose write_line has returned is on the wire.
C24_LedAlwaysOneLine ==
  [][/\ \A c \in Sessions : \A m \in LedMsgs :
          Recv(c, m) =>
            /\ issued' = Append(issued, Line("LED", MaskOf(m), 0, NoSeq))
            /\ cur'[c] = Line("LED", MaskOf(m), 0, NoSeq)
            /\ spc'[c] \in {"writing", "lockwait"}
            /\ spc'[c] = "writing" =>
                 /\ Len(wlog') = Len(wlog) + 1
                 /\ wlog'[Len(wlog')].line = cur'[c]
            /\ alive'[c] /\ c \in ws_clients'
            /\ seq' = seq
     /\ \A c \in Sessions :
          (spc'[c] = "echo" /\ cur'[c].cmd = "LED") =>
            (werr'[c] = "none" /\ TimesWritten(cur'[c]) >= 1)]_vars

\* C24 witness: led messages without a mask, or with one that is no
\* integer, were handled: LED,0 was rendered twice and written twice, and
\* the sender holds the two echoes and goes on receiving.
C24_Witness ==
  /\ issued = <<Line("LED", 0, 0, NoSeq), Line("LED", 0, 0, NoSeq)>>
  /\ wire = Render(issued[1]) \o Render(issued[2])
  /\ tx_count = 2
  /\ \E c \in Sessions :
       /\ spc[c] = "recv" /\ alive[c] /\ c \in ws_clients
       /\ Count(inbox[c], TxEvent(issued[1])) = 2

\* ---- C25

\* The place of a rendered line in the order handle_msg rendered them.
IssuedAt(l) == CHOOSE k \in 1..Len(issued) : issued[k] = l

\* a < b as 32-bit numbers.
Less32(a, b) == a[1] < b[1] \/ (a[1] = b[1] /\ a[2] < b[2])

\* C25: the write jobs are handed to the device in the order handle_msg
\* assigned their sequence numbers, and so are the write_line calls that
\* wait for the lock after the one that holds it: the bytes on the wire are
\* the jobs' bytes in job order, and the sequence numbers of the jobs only
\* grow.
C25_SeqOrderIsWireOrder ==
  /\ wire = Written(wlog)
  /\ \A i, j \in 1..Len(wlog) :
       i < j => /\ IssuedAt(wlog[i].line) < IssuedAt(wlog[j].line)
                /\ Less32(wlog[i].line.n, wlog[j].line.n)
  /\ \A i, j \in 1..Len(lockWaiters) :
       i < j => IssuedAt(cur[lockWaiters[i]]) < IssuedAt(cur[lockWaiters[j]])
  /\ \A i \in 1..Len(wlog) : \A k \in 1..Len(lockWaiters) :
       IssuedAt(wlog[i].line) < IssuedAt(cur[lockWaiters[k]])
  /\ (lockHolder # 0 /\ spc[lockHolder] = "lockwait") =>
       \A k \in 1..Len(lockWaiters) :
         IssuedAt(cur[lockHolder]) < IssuedAt(cur[lockWaiters[k]])

\* C25 witness: three clients sent a command each; the first line is written,
\* the lock was handed to the client whose command came second, and the
\* client whose command came third still waits.
C25_Witness ==
  /\ Len(issued) = 3
  /\ Len(wlog) = 1 /\ wlog[1].st = "ok" /\ wlog[1].line = issued[1]
  /\ lockHolder # 0 /\ spc[lockHolder] = "lockwait"
  /\ cur[lockHolder] = issued[2]
  /\ Len(lockWaiters) = 1 /\ cur[lockWaiters[1]] = issued[3]

\* ---- C26

\* The jobs that wrote line l to the device and returned.
WrittenOk(l) == { i \in 1..Len(wlog) : wlog[i].line = l /\ wlog[i].st = "ok" }

\* C26: a tx event is sent only for a line that was written to the device:
\* no echo is under way for a write_line call that raised, and every tx
\* event a session was sent carries a line that a write job wrote in full.
C26_TxOnlyForWrittenLines ==
  /\ \A c \in Sessions : spc[c] = "echo" => werr[c] = "none"
  /\ \A c \in Sessions : \A k \in 1..Len(inbox[c]) :
       inbox[c][k].type = "tx" => WrittenOk(inbox[c][k].tx) # {}

\* ---- C27

====
